---------------------------- MODULE Spec2Model ----------------------------
(***************************************************************************)
(* Model of custom_components/wyzeapi/switch.py: the Wyze switch platform  *)
(* of Home Assistant.  WyzeSwitch wraps a Device record and a service      *)
(* adapter (SwitchService or CameraService); WyzeNotifications toggles the *)
(* account-wide notification setting; async_setup_entry builds both.       *)
(*                                                                         *)
(* Every coroutine is cut at its await: the part before the await is one   *)
(* action (it issues the adapter call), the part after it another (it      *)
(* receives the adapter's outcome).  Code between two awaits runs without  *)
(* interruption on the event loop, so it is one step.                      *)
(***************************************************************************)
EXTENDS Integers, Sequences, FiniteSets, TLC

VARIABLES
    ents,           \* the WyzeSwitch objects that async_setup_entry built
    service,        \* e -> self._service
    device,         \* e -> self._device, the owned Device record
    just_updated,   \* e -> self._just_updated
    hass_state,     \* e -> "new" | "added" | "removed" (platform lifecycle)
    cmdPc,          \* e -> "idle" | "turn_on" | "turn_off" (awaiting the adapter)
    pollPc,         \* e -> "idle" | "update" (awaiting service.update)
    cmdCalls,       \* e -> adapter command calls issued by the current/last command
    polls,          \* e -> the last two async_update calls, latest first: what each did
                    \*      ("skipped" | "called") and the commands that preceded it
    cmdsSincePoll,  \* e -> successful commands since the last async_update began (saturating)
    callback_function, \* e -> the entity whose async_update_callback e's record is
                    \*      set to call (0: none)
    attachLog,      \* e -> the calls async_added_to_hass made, in order
    updaters,       \* s -> the subscriptions of s's scheduler: [device, interval], the
                    \*      device named by the entity that registered its record
    managers,       \* s -> number of running update-manager loops of s
    notif,          \* the WyzeNotifications object: [is_on, just_updated]
    notifCmdPc,     \* "idle" | "turn_on" | "turn_off" (awaiting the client)
    notifPollPc,    \* "idle" | "update" (awaiting client.notifications_are_on)
    last,           \* the step just taken: what ran, on what, and how it ended
    setupPc,        \* async_setup_entry: "start" | "get_switches" | "get_cameras" |
                    \*      "get_uid" | "done" | "failed"
    switches,       \* async_setup_entry's local list of built entities
    registered,     \* the list handed to async_add_entities, one entry per call
    inventory,      \* the device lists get_switches and get_cameras returned to
                    \*      the current setup run
    setupResult,    \* how async_setup_entry ended for its caller
    configFile,     \* wyze_config.ini in the configuration directory
    uidLog,         \* the last two get_uid runs, latest first
    dev_info        \* e -> what device_state_attributes last returned, with the
                    \*      record it was computed from

entVars == <<ents, service, device, just_updated, hass_state, cmdPc, pollPc,
             cmdCalls, polls, cmdsSincePoll, callback_function, attachLog>>
svcVars == <<updaters, managers>>
notifVars == <<notif, notifCmdPc, notifPollPc>>
setupVars == <<setupPc, switches, registered, setupResult, configFile, uidLog,
               inventory>>
vars == <<entVars, svcVars, notifVars, last, setupVars, dev_info>>

(***************************************************************************)
(* Bounds and sample values.                                               *)
(***************************************************************************)
\* cmdsSincePoll saturates here
MaxCmds == 2
\* longest inventory get_switches returns
MaxSwitches == 2
\* longest inventory get_cameras returns
MaxCameras == 1
\* the interval async_added_to_hass registers with
UpdaterInterval == 30

Services == {"switch_service", "camera_service"}
Macs == {"2CAA8E01", "2CAA8E02"}
Nicknames == {"Porch", "Porch Plug"}

\* What an awaited adapter or client call can end with.
Outcomes == {"ok", "auth", "transient"}

(***************************************************************************)
(* Device records (wyzeapy.types.Device as this file uses it): mac,        *)
(* nickname, product_model, on, available and device_params.               *)
(* device_params maps the telemetry keys the vendor reported to values;    *)
(* a value is tagged with its Python type.                                 *)
(***************************************************************************)
StrVal(s) == [t |-> "str", s |-> s, n |-> 0]
IntVal(n) == [t |-> "int", s |-> "", n |-> n]
NoneVal == [t |-> "none", s |-> "", n |-> 0]
BoolVal(b) == [t |-> "bool", s |-> "", n |-> IF b THEN 1 ELSE 0]

NoParams == [k \in {} |-> NoneVal]

NoDevice == [mac |-> "", nickname |-> "", product_model |-> "", on |-> FALSE,
             available |-> FALSE, device_params |-> NoParams]

\* The records a service can report for the device `d`: same device, current
\* on/off and availability.
RemoteRecords(d) ==
    {[d EXCEPT !.on = o, !.available = a] : o \in BOOLEAN, a \in BOOLEAN}

\* `last` records the step just taken: the operation, the entity, how it ended
\* for its caller ("ok", "skipped", "transient", "auth", "reauth"), the record or
\* boolean the adapter delivered, and whether async_schedule_update_ha_state ran.
NoStep == [op |-> "none", ent |-> "", result |-> "", rec |-> NoDevice,
           reply |-> FALSE, scheduled |-> FALSE]

Step(op, e, result, rec, scheduled) ==
    [op |-> op, ent |-> e, result |-> result, rec |-> rec, reply |-> FALSE,
     scheduled |-> scheduled]

NotifStep(op, result, reply, scheduled) ==
    [op |-> op, ent |-> "notifications", result |-> result, rec |-> NoDevice,
     reply |-> reply, scheduled |-> scheduled]

Inc(n) == IF n < MaxCmds THEN n + 1 ELSE MaxCmds

\* The poll history keeps the latest two entries.
LogPoll(log, did, cmds) ==
    LET all == <<[did |-> did, cmds |-> cmds]>> \o log
    IN  IF Len(all) > 2 THEN SubSeq(all, 1, 2) ELSE all

(***************************************************************************)
(* token_exception_handler (token_manager.py) wraps async_setup_entry and  *)
(* WyzeSwitch.async_turn_on / async_turn_off / async_update: an            *)
(* authentication error of the wrapped coroutine is caught and handed to   *)
(* the re-authentication flow; everything else passes through.             *)
(***************************************************************************)
token_exception_handler(outcome) ==
    IF outcome = "auth" THEN "reauth" ELSE outcome

\* An entry point that is not wrapped: the outcome is the caller's.
undecorated(outcome) == outcome

(***************************************************************************)
(* WyzeSwitch properties.                                                  *)
(***************************************************************************)
is_on(e) == device[e].on

available(e) == device[e].available

(***************************************************************************)
(* The service adapter's scheduler (wyzeapy BaseService), as this file     *)
(* uses it.                                                                *)
(***************************************************************************)
\* register_updater(device, interval): e's record joins s's scheduler.
register_updater(s, e, interval) ==
    [updaters EXCEPT ![s] = Append(@, [device |-> e, interval |-> interval])]

\* unregister_updater(): called without a device, it drops what s's scheduler holds.
unregister_updater(s) == [updaters EXCEPT ![s] = <<>>]

\* The subscriptions of s's scheduler that hold e's record.
Subscriptions(s, e) == {i \in DOMAIN updaters[s] : updaters[s][i].device = e}

\* start_update_manager(): starts s's loop unless it already runs.
start_update_manager(s) ==
    [managers EXCEPT ![s] = IF @ = 0 THEN 1 ELSE @]

(***************************************************************************)
(* WyzeSwitch.async_turn_on / async_turn_off.                              *)
(***************************************************************************)
\* Up to the await: self._service.turn_on(self._device) is called.
AsyncTurnOn(e) ==
    /\ hass_state[e] = "added"
    /\ cmdPc[e] = "idle"
    /\ cmdPc' = [cmdPc EXCEPT ![e] = "turn_on"]
    /\ cmdCalls' = [cmdCalls EXCEPT ![e] = 1]
    /\ last' = Step("call_turn_on", e, "", NoDevice, FALSE)
    /\ UNCHANGED <<ents, service, callback_function, attachLog, device,
                   just_updated, hass_state, pollPc,
                   polls, cmdsSincePoll, svcVars, notifVars, setupVars, dev_info>>

\* Mutant: the on/off flag is flipped but the "just updated" flag is not raised.
TurnOnReturnNoFlag(e, outcome) ==
    /\ cmdPc[e] = "turn_on"
    /\ cmdPc' = [cmdPc EXCEPT ![e] = "idle"]
    /\ IF outcome = "ok"
       THEN /\ device' = [device EXCEPT ![e].on = TRUE]
            /\ cmdsSincePoll' = [cmdsSincePoll EXCEPT ![e] = Inc(@)]
            /\ UNCHANGED just_updated
       ELSE UNCHANGED <<device, just_updated, cmdsSincePoll>>
    /\ last' = Step("turn_on", e, token_exception_handler(outcome), NoDevice, FALSE)
    /\ UNCHANGED <<ents, service, callback_function, attachLog,
                   hass_state, pollPc, cmdCalls, polls,
                   svcVars, notifVars, setupVars, dev_info>>

\* Mutant: the flag is the class attribute, raised for every entity at once.
TurnOnReturnSharedFlag(e, outcome) ==
    /\ cmdPc[e] = "turn_on"
    /\ cmdPc' = [cmdPc EXCEPT ![e] = "idle"]
    /\ IF outcome = "ok"
       THEN /\ device' = [device EXCEPT ![e].on = TRUE]
            /\ just_updated' = [f \in ents |-> TRUE]
            /\ cmdsSincePoll' = [cmdsSincePoll EXCEPT ![e] = Inc(@)]
       ELSE UNCHANGED <<device, just_updated, cmdsSincePoll>>
    /\ last' = Step("turn_on", e, token_exception_handler(outcome), NoDevice, FALSE)
    /\ UNCHANGED <<ents, service, callback_function, attachLog,
                   hass_state, pollPc, cmdCalls, polls,
                   svcVars, notifVars, setupVars, dev_info>>

\* After the await: on success both assignments run in one step.
TurnOnReturn(e, outcome) ==
    /\ cmdPc[e] = "turn_on"
    /\ cmdPc' = [cmdPc EXCEPT ![e] = "idle"]
    /\ IF outcome = "ok"
       THEN /\ device' = [device EXCEPT ![e].on = TRUE]
            /\ just_updated' = [just_updated EXCEPT ![e] = TRUE]
            /\ cmdsSincePoll' = [cmdsSincePoll EXCEPT ![e] = Inc(@)]
       ELSE UNCHANGED <<device, just_updated, cmdsSincePoll>>
    /\ last' = Step("turn_on", e, token_exception_handler(outcome), NoDevice, FALSE)
    /\ UNCHANGED <<ents, service, callback_function, attachLog,
                   hass_state, pollPc, cmdCalls, polls,
                   svcVars, notifVars, setupVars, dev_info>>

AsyncTurnOff(e) ==
    /\ hass_state[e] = "added"
    /\ cmdPc[e] = "idle"
    /\ cmdPc' = [cmdPc EXCEPT ![e] = "turn_off"]
    /\ cmdCalls' = [cmdCalls EXCEPT ![e] = 1]
    /\ last' = Step("call_turn_off", e, "", NoDevice, FALSE)
    /\ UNCHANGED <<ents, service, callback_function, attachLog, device,
                   just_updated, hass_state, pollPc,
                   polls, cmdsSincePoll, svcVars, notifVars, setupVars, dev_info>>

\* Mutant: the optimistic assignments run whatever the adapter call ended with.
TurnOffReturnEager(e, outcome) ==
    /\ cmdPc[e] = "turn_off"
    /\ cmdPc' = [cmdPc EXCEPT ![e] = "idle"]
    /\ device' = [device EXCEPT ![e].on = FALSE]
    /\ just_updated' = [just_updated EXCEPT ![e] = TRUE]
    /\ cmdsSincePoll' = [cmdsSincePoll EXCEPT ![e] = Inc(@)]
    /\ last' = Step("turn_off", e, token_exception_handler(outcome), NoDevice, FALSE)
    /\ UNCHANGED <<ents, service, callback_function, attachLog,
                   hass_state, pollPc, cmdCalls, polls,
                   svcVars, notifVars, setupVars, dev_info>>

TurnOffReturn(e, outcome) ==
    /\ cmdPc[e] = "turn_off"
    /\ cmdPc' = [cmdPc EXCEPT ![e] = "idle"]
    /\ IF outcome = "ok"
       THEN /\ device' = [device EXCEPT ![e].on = FALSE]
            /\ just_updated' = [just_updated EXCEPT ![e] = TRUE]
            /\ cmdsSincePoll' = [cmdsSincePoll EXCEPT ![e] = Inc(@)]
       ELSE UNCHANGED <<device, just_updated, cmdsSincePoll>>
    /\ last' = Step("turn_off", e, token_exception_handler(outcome), NoDevice, FALSE)
    /\ UNCHANGED <<ents, service, callback_function, attachLog,
                   hass_state, pollPc, cmdCalls, polls,
                   svcVars, notifVars, setupVars, dev_info>>

(***************************************************************************)
(* WyzeSwitch.async_update.                                                *)
(***************************************************************************)
\* Mutant: the flag suppresses the refresh but is never consumed.
AsyncUpdateKeepsFlag(e) ==
    /\ pollPc[e] = "idle"
    /\ IF ~just_updated[e]
       THEN /\ pollPc' = [pollPc EXCEPT ![e] = "update"]
            /\ last' = Step("call_update", e, "", NoDevice, FALSE)
       ELSE /\ last' = Step("update", e, "skipped", NoDevice, FALSE)
            /\ UNCHANGED pollPc
    /\ polls' = [polls EXCEPT ![e] =
                    LogPoll(@, IF just_updated[e] THEN "skipped" ELSE "called",
                            cmdsSincePoll[e])]
    /\ cmdsSincePoll' = [cmdsSincePoll EXCEPT ![e] = 0]
    /\ UNCHANGED <<ents, service, callback_function, attachLog, device,
                   just_updated, hass_state, cmdPc, cmdCalls,
                   svcVars, notifVars, setupVars, dev_info>>

\* Up to the await, or the whole call when the flag is set.
AsyncUpdate(e) ==
    /\ pollPc[e] = "idle"
    /\ IF ~just_updated[e]
       THEN /\ pollPc' = [pollPc EXCEPT ![e] = "update"]
            /\ last' = Step("call_update", e, "", NoDevice, FALSE)
            /\ UNCHANGED just_updated
       ELSE /\ just_updated' = [just_updated EXCEPT ![e] = FALSE]
            /\ last' = Step("update", e, "skipped", NoDevice, FALSE)
            /\ UNCHANGED pollPc
    /\ polls' = [polls EXCEPT ![e] =
                    LogPoll(@, IF just_updated[e] THEN "skipped" ELSE "called",
                            cmdsSincePoll[e])]
    /\ cmdsSincePoll' = [cmdsSincePoll EXCEPT ![e] = 0]
    /\ UNCHANGED <<ents, service, callback_function, attachLog,
                   device, hass_state, cmdPc, cmdCalls,
                   svcVars, notifVars, setupVars, dev_info>>

\* Mutant: a refresh that failed with a transient error is issued again at once.
UpdateReturnRetries(e, outcome, r) ==
    /\ pollPc[e] = "update"
    /\ pollPc' = [pollPc EXCEPT ![e] = IF outcome = "transient" THEN "update" ELSE "idle"]
    /\ IF outcome = "ok"
       THEN /\ device' = [device EXCEPT ![e] = r]
            /\ last' = Step("update", e, "ok", r, FALSE)
       ELSE /\ UNCHANGED device
            /\ last' = IF outcome = "transient"
                       THEN Step("call_update", e, "", NoDevice, FALSE)
                       ELSE Step("update", e, token_exception_handler(outcome),
                                 NoDevice, FALSE)
    /\ UNCHANGED <<ents, service, callback_function, attachLog,
                   just_updated, hass_state, cmdPc, cmdCalls,
                   polls, cmdsSincePoll, svcVars, notifVars, setupVars, dev_info>>

\* Mutant: the refresh stores the record of another device.
UpdateReturnOtherDevice(e, outcome, r) ==
    /\ pollPc[e] = "update"
    /\ pollPc' = [pollPc EXCEPT ![e] = "idle"]
    /\ IF outcome = "ok"
       THEN /\ device' = [device EXCEPT ![e] =
                             [r EXCEPT !.mac = CHOOSE m \in Macs : m # r.mac]]
            /\ last' = Step("update", e, "ok", r, FALSE)
       ELSE /\ UNCHANGED device
            /\ last' = Step("update", e, token_exception_handler(outcome), NoDevice, FALSE)
    /\ UNCHANGED <<ents, service, callback_function, attachLog,
                   just_updated, hass_state, cmdPc, cmdCalls,
                   polls, cmdsSincePoll, svcVars, notifVars, setupVars, dev_info>>

\* After the await: self._device = <the record service.update returned>.
UpdateReturn(e, outcome, r) ==
    /\ pollPc[e] = "update"
    /\ pollPc' = [pollPc EXCEPT ![e] = "idle"]
    /\ IF outcome = "ok"
       THEN /\ device' = [device EXCEPT ![e] = r]
            /\ last' = Step("update", e, "ok", r, FALSE)
       ELSE /\ UNCHANGED device
            /\ last' = Step("update", e, token_exception_handler(outcome), NoDevice, FALSE)
    /\ UNCHANGED <<ents, service, callback_function, attachLog,
                   just_updated, hass_state, cmdPc, cmdCalls,
                   polls, cmdsSincePoll, svcVars, notifVars, setupVars, dev_info>>

(***************************************************************************)
(* WyzeSwitch.async_update_callback, and the scheduler that invokes it.    *)
(***************************************************************************)
\* Mutant: a push clears the flag, as a skipped poll does.
AsyncUpdateCallbackClearsFlag(e, switch) ==
    /\ device' = [device EXCEPT ![e] = switch]
    /\ just_updated' = [just_updated EXCEPT ![e] = FALSE]
    /\ last' = Step("push", e, "ok", switch, TRUE)
    /\ UNCHANGED <<ents, service, callback_function, attachLog,
                   hass_state, cmdPc, pollPc,
                   cmdCalls, polls, cmdsSincePoll, svcVars, notifVars, setupVars, dev_info>>

\* Mutant: a push is suppressed, like a poll, while the flag is set.
AsyncUpdateCallbackSuppressed(e, switch) ==
    /\ device' = [device EXCEPT ![e] = IF just_updated[e] THEN @ ELSE switch]
    /\ last' = Step("push", e, "ok", switch, TRUE)
    /\ UNCHANGED <<ents, service, callback_function, attachLog,
                   just_updated, hass_state, cmdPc, pollPc,
                   cmdCalls, polls, cmdsSincePoll, svcVars, notifVars, setupVars, dev_info>>

AsyncUpdateCallback(e, switch) ==
    /\ device' = [device EXCEPT ![e] = switch]
    /\ last' = Step("push", e, "ok", switch, TRUE)
    /\ UNCHANGED <<ents, service, callback_function, attachLog,
                   just_updated, hass_state, cmdPc, pollPc,
                   cmdCalls, polls, cmdsSincePoll, svcVars, notifVars, setupVars, dev_info>>

\* The running scheduler of e's service pushes a fresh record to a registered
\* device's callback_function.
SchedulerPush(e) ==
    /\ Subscriptions(service[e], e) # {}
    /\ callback_function[e] = e
    /\ managers[service[e]] > 0
    /\ \E r \in RemoteRecords(device[e]) : AsyncUpdateCallback(e, r)

(***************************************************************************)
(* WyzeSwitch.async_added_to_hass / async_will_remove_from_hass.           *)
(***************************************************************************)
\* Mutant: the record is registered but the update manager is never started.
AsyncAddedNoStart(e) ==
    /\ hass_state[e] = "new"
    /\ callback_function' = [callback_function EXCEPT ![e] = e]
    /\ updaters' = register_updater(service[e], e, UpdaterInterval)
    /\ attachLog' = [attachLog EXCEPT ![e] =
                        <<"callback_function", "register_updater">>]
    /\ hass_state' = [hass_state EXCEPT ![e] = "added"]
    /\ last' = Step("added", e, "ok", NoDevice, FALSE)
    /\ UNCHANGED <<ents, service, device, just_updated, cmdPc, pollPc, cmdCalls,
                   polls, cmdsSincePoll, managers, notifVars, setupVars, dev_info>>

AsyncAddedToHass(e) ==
    /\ hass_state[e] = "new"
    /\ callback_function' = [callback_function EXCEPT ![e] = e]
    /\ updaters' = register_updater(service[e], e, UpdaterInterval)
    /\ managers' = start_update_manager(service[e])
    /\ attachLog' = [attachLog EXCEPT ![e] =
                        <<"callback_function", "register_updater",
                          "start_update_manager">>]
    /\ hass_state' = [hass_state EXCEPT ![e] = "added"]
    /\ last' = Step("added", e, "ok", NoDevice, FALSE)
    /\ UNCHANGED <<ents, service, device, just_updated, cmdPc, pollPc, cmdCalls,
                   polls, cmdsSincePoll, notifVars, setupVars, dev_info>>

\* Mutant: the entity leaves without unregistering from the scheduler.
AsyncWillRemoveKeepsUpdater(e) ==
    /\ hass_state[e] = "added"
    /\ hass_state' = [hass_state EXCEPT ![e] = "removed"]
    /\ last' = Step("removed", e, "ok", NoDevice, FALSE)
    /\ UNCHANGED <<ents, service, callback_function, attachLog, device,
                   just_updated, cmdPc, pollPc, cmdCalls,
                   polls, cmdsSincePoll, updaters, managers, notifVars, setupVars, dev_info>>

AsyncWillRemoveFromHass(e) ==
    /\ hass_state[e] = "added"
    /\ updaters' = unregister_updater(service[e])
    /\ hass_state' = [hass_state EXCEPT ![e] = "removed"]
    /\ last' = Step("removed", e, "ok", NoDevice, FALSE)
    /\ UNCHANGED <<ents, service, callback_function, attachLog, device,
                   just_updated, cmdPc, pollPc, cmdCalls,
                   polls, cmdsSincePoll, managers, notifVars, setupVars, dev_info>>

(***************************************************************************)
(* WyzeNotifications.                                                      *)
(***************************************************************************)
NotifTurnOn ==
    /\ notifCmdPc = "idle"
    /\ notifCmdPc' = "turn_on"
    /\ last' = NotifStep("call_enable", "", FALSE, FALSE)
    /\ UNCHANGED <<entVars, svcVars, notif, notifPollPc, setupVars, dev_info>>

NotifTurnOnReturn(outcome) ==
    /\ notifCmdPc = "turn_on"
    /\ notifCmdPc' = "idle"
    /\ IF outcome = "ok"
       THEN notif' = [notif EXCEPT !.is_on = TRUE, !.just_updated = TRUE]
       ELSE UNCHANGED notif
    /\ last' = NotifStep("turn_on", undecorated(outcome), FALSE, outcome = "ok")
    /\ UNCHANGED <<entVars, svcVars, notifPollPc, setupVars, dev_info>>

NotifTurnOff ==
    /\ notifCmdPc = "idle"
    /\ notifCmdPc' = "turn_off"
    /\ last' = NotifStep("call_disable", "", FALSE, FALSE)
    /\ UNCHANGED <<entVars, svcVars, notif, notifPollPc, setupVars, dev_info>>

NotifTurnOffReturn(outcome) ==
    /\ notifCmdPc = "turn_off"
    /\ notifCmdPc' = "idle"
    /\ IF outcome = "ok"
       THEN notif' = [notif EXCEPT !.is_on = FALSE, !.just_updated = TRUE]
       ELSE UNCHANGED notif
    /\ last' = NotifStep("turn_off", undecorated(outcome), FALSE, outcome = "ok")
    /\ UNCHANGED <<entVars, svcVars, notifPollPc, setupVars, dev_info>>

\* Mutant: the account is queried whether or not the flag is set.
NotifUpdateAlwaysQueries ==
    /\ notifPollPc = "idle"
    /\ notifPollPc' = "update"
    /\ notif' = [notif EXCEPT !.just_updated = FALSE]
    /\ last' = NotifStep("call_notifications_are_on", "", FALSE, FALSE)
    /\ UNCHANGED <<entVars, svcVars, notifCmdPc, setupVars, dev_info>>

NotifUpdate ==
    /\ notifPollPc = "idle"
    /\ IF ~notif.just_updated
       THEN /\ notifPollPc' = "update"
            /\ last' = NotifStep("call_notifications_are_on", "", FALSE, FALSE)
            /\ UNCHANGED notif
       ELSE /\ notif' = [notif EXCEPT !.just_updated = FALSE]
            /\ last' = NotifStep("update", "skipped", FALSE, FALSE)
            /\ UNCHANGED notifPollPc
    /\ UNCHANGED <<entVars, svcVars, notifCmdPc, setupVars, dev_info>>

NotifUpdateReturn(outcome, b) ==
    /\ notifPollPc = "update"
    /\ notifPollPc' = "idle"
    /\ IF outcome = "ok"
       THEN /\ notif' = [notif EXCEPT !.is_on = b]
            /\ last' = NotifStep("update", "ok", b, FALSE)
       ELSE /\ UNCHANGED notif
            /\ last' = NotifStep("update", undecorated(outcome), FALSE, FALSE)
    /\ UNCHANGED <<entVars, svcVars, notifCmdPc, setupVars, dev_info>>

(***************************************************************************)
(* unique_id of the two entity classes.                                    *)
(***************************************************************************)
\* Mutant: the identifier is built from the display name.
unique_id_from_name(e) == device[e].nickname \o "-switch"

\* WyzeSwitch.unique_id: "{}-switch".format(self._device.mac)
unique_id(e) == device[e].mac \o "-switch"

\* DOMAIN, the integration's domain, imported from .const
WYZE_DOMAIN == "wyzeapi"

\* WyzeSwitch.device_info["identifiers"]: {(DOMAIN, self._device.mac)}
device_info_identifiers(e) == {<<WYZE_DOMAIN, device[e].mac>>}

\* WyzeNotifications.available
notif_available == TRUE

\* WyzeNotifications.is_on
notif_is_on == notif.is_on

\* WyzeNotifications.unique_id
notif_unique_id == notif.uid

(***************************************************************************)
(* WyzeSwitch.device_state_attributes.  The result is the dictionary, or   *)
(* the error the property raised.                                          *)
(***************************************************************************)
ATTRIBUTION == "Data provided by Wyze"

\* dict.get(key): the value, or None for a missing key
DictGet(params, key) == IF key \in DOMAIN params THEN params[key] ELSE NoneVal

\* Python's truth value of a telemetry value
Truthy(v) ==
    CASE v.t = "str" -> v.s # ""
      [] v.t = "int" -> v.n # 0
      [] OTHER -> FALSE

\* str(v)
PyStr(v) ==
    CASE v.t = "str" -> v.s
      [] v.t = "int" -> ToString(v.n)
      [] OTHER -> "None"

\* v + "%" is defined between strings only
CanAddStr(v) == v.t = "str"

Entry(key, value) == [k \in {key} |-> value]

NoAttrs == [k \in {} |-> NoneVal]

NoInfo == [computed |-> FALSE, error |-> "", attrs |-> NoAttrs, of |-> NoDevice]

device_state_attributes(e) ==
    LET params == device[e].device_params
        fixed == [k \in {"attribution", "state", "available", "device model", "mac"} |->
                    CASE k = "attribution" -> StrVal(ATTRIBUTION)
                      [] k = "state" -> BoolVal(is_on(e))
                      [] k = "available" -> BoolVal(available(e))
                      [] k = "device model" -> StrVal(device[e].product_model)
                      [] OTHER -> StrVal(unique_id(e))]
        battery == IF Truthy(DictGet(params, "electricity"))
                   THEN Entry("Battery", StrVal(DictGet(params, "electricity").s \o "%"))
                   ELSE NoAttrs
        ip == IF Truthy(DictGet(params, "ip"))
              THEN Entry("IP", StrVal(PyStr(DictGet(params, "ip")))) ELSE NoAttrs
        rssi == IF Truthy(DictGet(params, "rssi"))
                THEN Entry("RSSI", StrVal(PyStr(DictGet(params, "rssi")))) ELSE NoAttrs
        ssid == IF Truthy(DictGet(params, "ssid"))
                THEN Entry("SSID", StrVal(PyStr(DictGet(params, "ssid")))) ELSE NoAttrs
    IN  IF Truthy(DictGet(params, "electricity"))
           /\ ~CanAddStr(DictGet(params, "electricity"))
        THEN [computed |-> TRUE, error |-> "TypeError", attrs |-> NoAttrs,
              of |-> device[e]]
        ELSE [computed |-> TRUE, error |-> "",
              attrs |-> fixed @@ battery @@ ip @@ rssi @@ ssid, of |-> device[e]]

\* The platform reads the property.
ReadAttributes(e) ==
    /\ dev_info' = [dev_info EXCEPT ![e] = device_state_attributes(e)]
    /\ UNCHANGED <<entVars, svcVars, notifVars, last, setupVars>>

\* The telemetry a vendor may report under one key: nothing, text (also
\* empty), a number (also zero), null.
TelemetryValues == {StrVal(""), StrVal("85"), IntVal(0), IntVal(85), NoneVal}

TelemetryKeys == {"electricity", "ip", "rssi", "ssid"}

ParamSamples == UNION {[K -> TelemetryValues] : K \in SUBSET TelemetryKeys}

TelemetryRecords ==
    [mac : {"2CAA8E01"}, nickname : {"Porch"}, product_model : {"WLPP1"},
     on : {TRUE}, available : {TRUE}, device_params : ParamSamples]

(***************************************************************************)
(* wyze_config.ini and configparser, as get_uid uses them.  A file or a    *)
(* parsed configuration is [exists, defaults, sections]: the DEFAULT       *)
(* section's options, and the options of every other section by section    *)
(* name.  Values are sequences of characters.                              *)
(***************************************************************************)
NoOptions == [k \in {} |-> <<>>]
NoSections == [sec \in {} |-> NoOptions]
NoFile == [exists |-> FALSE, defaults |-> NoOptions, sections |-> NoSections]

\* ConfigParser.optionxform: option names are lower-cased (here, over the
\* option names the sample files use).
optionxform(k) ==
    CASE k = "SYSTEM_ID" -> "system_id"
      [] k = "System_Id" -> "system_id"
      [] k = "NAME" -> "name"
      [] OTHER -> k

XformKeys(m) ==
    [k \in {optionxform(r) : r \in DOMAIN m} |->
        m[CHOOSE r \in DOMAIN m : optionxform(r) = k]]

\* config.read(config_path): a missing file is skipped and the configuration
\* stays empty.
ConfigRead(file) ==
    IF ~file.exists
    THEN [exists |-> TRUE, defaults |-> NoOptions, sections |-> NoSections]
    ELSE [exists |-> TRUE,
          defaults |-> XformKeys(file.defaults),
          sections |-> [sec \in DOMAIN file.sections |-> XformKeys(file.sections[sec])]]

\* config.has_option(section, option)
has_option(config, section, option) ==
    /\ section \in DOMAIN config.sections
    /\ optionxform(option) \in
           (DOMAIN config.sections[section]) \cup (DOMAIN config.defaults)

\* config[section][option]: the section's own value, else the DEFAULT one.
ConfigGet(config, section, option) ==
    IF optionxform(option) \in DOMAIN config.sections[section]
    THEN config.sections[section][optionxform(option)]
    ELSE config.defaults[optionxform(option)]

\* config[section] = {}
ConfigSetSection(config, section) ==
    [config EXCEPT !.sections =
        [sec \in (DOMAIN config.sections) \cup {section} |->
            IF sec = section THEN NoOptions ELSE config.sections[sec]]]

\* config[section][option] = value
ConfigSet(config, section, option, value) ==
    [config EXCEPT !.sections[section] =
        [k \in (DOMAIN @) \cup {optionxform(option)} |->
            IF k = optionxform(option) THEN value ELSE @[k]]]

\* config.write(configfile) on a file opened with 'w'
ConfigWrite(config) == [config EXCEPT !.exists = TRUE]

(***************************************************************************)
(* uuid.uuid4().hex: 16 random bytes, the version and variant bits set,    *)
(* printed as 32 zero-padded lower-case hexadecimal digits.                *)
(***************************************************************************)
HexDigits == <<"0", "1", "2", "3", "4", "5", "6", "7",
               "8", "9", "a", "b", "c", "d", "e", "f">>

uuid4(rnd) ==
    [i \in 1..16 |->
        IF i = 7 THEN (rnd[i] % 16) + 64
        ELSE IF i = 9 THEN (rnd[i] % 64) + 128
        ELSE rnd[i]]

RECURSIVE HexOf(_, _)
HexOf(bytes, i) ==
    IF i > Len(bytes) THEN <<>>
    ELSE <<HexDigits[(bytes[i] \div 16) + 1], HexDigits[(bytes[i] % 16) + 1]>>
             \o HexOf(bytes, i + 1)

\* UUID.hex
hex(u) == HexOf(u, 1)

\* What os.urandom(16) may deliver.
UrandomSamples ==
    { [i \in 1..16 |-> 0],
      [i \in 1..16 |-> 255],
      [i \in 1..16 |-> (i * 37) % 256] }

IsHexToken(str) ==
    /\ Len(str) = 32
    /\ \A i \in 1..Len(str) : \E d \in 1..16 : str[i] = HexDigits[d]

(***************************************************************************)
(* get_uid, the job async_setup_entry hands to the executor.  It returns   *)
(* the identifier and leaves the file as `file`; `generated` and `wrote`   *)
(* tell whether uuid4 was called and whether the file was written.         *)
(***************************************************************************)
\* Mutant: the new identifier is returned but never written to the file.
get_uid_not_saved(file, rnd) ==
    LET config == ConfigRead(file)
    IN  IF has_option(config, "OPTIONS", "SYSTEM_ID")
        THEN [uid |-> ConfigGet(config, "OPTIONS", "SYSTEM_ID"), file |-> file,
              generated |-> FALSE, wrote |-> FALSE, found |-> file.exists]
        ELSE [uid |-> hex(uuid4(rnd)), file |-> file,
              generated |-> TRUE, wrote |-> TRUE, found |-> file.exists]

get_uid(file, rnd) ==
    LET config == ConfigRead(file)
    IN  IF has_option(config, "OPTIONS", "SYSTEM_ID")
        THEN [uid |-> ConfigGet(config, "OPTIONS", "SYSTEM_ID"), file |-> file,
              generated |-> FALSE, wrote |-> FALSE, found |-> file.exists]
        ELSE LET new_uid == hex(uuid4(rnd))
                 filled == ConfigSet(ConfigSetSection(config, "OPTIONS"),
                                     "OPTIONS", "SYSTEM_ID", new_uid)
             IN  [uid |-> new_uid, file |-> ConfigWrite(filled),
                  generated |-> TRUE, wrote |-> TRUE, found |-> file.exists]

LogUid(log, run) ==
    LET all == <<[uid |-> run.uid, generated |-> run.generated,
                  wrote |-> run.wrote, found |-> run.found]>> \o log
    IN  IF Len(all) > 2 THEN SubSeq(all, 1, 2) ELSE all

(***************************************************************************)
(* async_setup_entry.                                                      *)
(***************************************************************************)
\* The devices an inventory call may list.
SwitchDevices ==
    [mac : Macs, nickname : Nicknames, product_model : {"WLPP1"}, on : {FALSE},
     available : {TRUE}, device_params : {NoParams}]

CameraDevices ==
    [mac : Macs, nickname : {"Porch"}, product_model : {"WYZEC1"}, on : {FALSE},
     available : {TRUE}, device_params : {NoParams}]

SeqsUpTo(S, n) == UNION {[1..m -> S] : m \in 0..n}

NoUid == <<>>

NoInventory == [switches |-> <<>>, cameras |-> <<>>]

\* WyzeSwitch.__init__(service, device)
WyzeSwitch(svc, dev) ==
    [kind |-> "switch", service |-> svc, device |-> dev, uid |-> NoUid]

\* WyzeNotifications.__init__(client, uid)
WyzeNotifications(uid) ==
    [kind |-> "notifications", service |-> "", device |-> NoDevice, uid |-> uid]

BuildAll(svc, inv) ==
    [i \in 1..Len(inv) |-> WyzeSwitch(svc, inv[i])]

\* The state of the entity objects of a list when the platform receives it.
EntitiesOf(list) ==
    LET E == {i \in 1..Len(list) : list[i].kind = "switch"}
    IN  /\ ents' = E
        /\ service' = [e \in E |-> list[e].service]
        /\ device' = [e \in E |-> list[e].device]
        /\ just_updated' = [e \in E |-> FALSE]
        /\ hass_state' = [e \in E |-> "new"]
        /\ cmdPc' = [e \in E |-> "idle"]
        /\ pollPc' = [e \in E |-> "idle"]
        /\ cmdCalls' = [e \in E |-> 0]
        /\ polls' = [e \in E |-> <<>>]
        /\ cmdsSincePoll' = [e \in E |-> 0]
        /\ dev_info' = [e \in E |-> NoInfo]
        /\ callback_function' = [e \in E |-> 0]
        /\ attachLog' = [e \in E |-> <<>>]

\* Up to the first inventory await: the two services are resolved and
\* switch_service.get_switches() is called.
SetupStart ==
    /\ setupPc = "start"
    /\ setupPc' = "get_switches"
    /\ UNCHANGED <<entVars, svcVars, notifVars, last, switches, registered,
                   setupResult, configFile, uidLog, inventory, dev_info>>

\* get_switches returns: one WyzeSwitch per device, then get_cameras is called.
GetSwitchesReturn(outcome, inv) ==
    /\ setupPc = "get_switches"
    /\ IF outcome = "ok"
       THEN /\ switches' = BuildAll("switch_service", inv)
            /\ inventory' = [inventory EXCEPT !.switches = inv]
            /\ setupPc' = "get_cameras"
            /\ UNCHANGED setupResult
       ELSE /\ setupPc' = "failed"
            /\ setupResult' = token_exception_handler(outcome)
            /\ UNCHANGED <<switches, inventory>>
    /\ UNCHANGED <<entVars, svcVars, notifVars, last, registered, configFile, uidLog,
                   dev_info>>

\* Mutant: the cameras' entities replace the switches' instead of joining them.
GetCamerasReturnReplaces(outcome, inv) ==
    /\ setupPc = "get_cameras"
    /\ IF outcome = "ok"
       THEN /\ switches' = BuildAll("camera_service", inv)
            /\ inventory' = [inventory EXCEPT !.cameras = inv]
            /\ setupPc' = "get_uid"
            /\ UNCHANGED setupResult
       ELSE /\ setupPc' = "failed"
            /\ setupResult' = token_exception_handler(outcome)
            /\ UNCHANGED <<switches, inventory>>
    /\ UNCHANGED <<entVars, svcVars, notifVars, last, registered, configFile, uidLog,
                   dev_info>>

\* get_cameras returns: one WyzeSwitch per camera is appended, then get_uid is
\* handed to the executor.
GetCamerasReturn(outcome, inv) ==
    /\ setupPc = "get_cameras"
    /\ IF outcome = "ok"
       THEN /\ switches' = switches \o BuildAll("camera_service", inv)
            /\ inventory' = [inventory EXCEPT !.cameras = inv]
            /\ setupPc' = "get_uid"
            /\ UNCHANGED setupResult
       ELSE /\ setupPc' = "failed"
            /\ setupResult' = token_exception_handler(outcome)
            /\ UNCHANGED <<switches, inventory>>
    /\ UNCHANGED <<entVars, svcVars, notifVars, last, registered, configFile, uidLog,
                   dev_info>>

\* get_uid has run: the notification toggle is appended and the whole list goes
\* to async_add_entities in one call.
SetupFinish(rnd) ==
    /\ setupPc = "get_uid"
    /\ LET run == get_uid(configFile, rnd)
           all == Append(switches, WyzeNotifications(run.uid))
       IN  /\ configFile' = run.file
           /\ uidLog' = LogUid(uidLog, run)
           /\ switches' = all
           /\ registered' = Append(registered, all)
           /\ notif' = [is_on |-> FALSE, just_updated |-> FALSE, uid |-> run.uid]
           /\ EntitiesOf(all)
    /\ setupPc' = "done"
    /\ setupResult' = "ok"
    /\ UNCHANGED <<svcVars, notifCmdPc, notifPollPc, last, inventory>>

\* Home Assistant restarts: the objects are gone, the file stays.
Restart ==
    /\ setupPc \in {"done", "failed"}
    /\ setupPc' = "start"
    /\ switches' = <<>>
    /\ registered' = <<>>
    /\ inventory' = NoInventory
    /\ setupResult' = ""
    /\ notif' = [is_on |-> FALSE, just_updated |-> FALSE, uid |-> NoUid]
    /\ EntitiesOf(<<>>)
    /\ UNCHANGED <<svcVars, notifCmdPc, notifPollPc, last, configFile, uidLog>>

\* The files setup may find: none, an empty one, one with other content, one
\* that already holds an identifier (typed in any case), one whose DEFAULT
\* section holds it.
OldUid == hex(uuid4([i \in 1..16 |-> (i * 11) % 256]))
SavedFile ==
    [exists |-> TRUE, defaults |-> NoOptions,
     sections |-> [sec \in {"OPTIONS"} |-> [k \in {"system_id"} |-> OldUid]]]
FileSamples ==
    { NoFile,
      [exists |-> TRUE, defaults |-> NoOptions, sections |-> NoSections],
      [exists |-> TRUE, defaults |-> NoOptions,
       sections |-> [sec \in {"OPTIONS"} |-> [k \in {"NAME"} |-> <<"h", "a">>]]],
      [exists |-> TRUE, defaults |-> NoOptions,
       sections |-> [sec \in {"LOGIN"} |-> [k \in {"SYSTEM_ID"} |-> <<"x">>]]],
      [exists |-> TRUE, defaults |-> NoOptions,
       sections |-> [sec \in {"OPTIONS"} |-> [k \in {"System_Id"} |-> OldUid]]],
      [exists |-> TRUE, defaults |-> [k \in {"system_id"} |-> <<"d">>],
       sections |-> NoSections] }

InitSetup ==
    /\ ents = {}
    /\ service = [e \in {} |-> ""]
    /\ device = [e \in {} |-> NoDevice]
    /\ just_updated = [e \in {} |-> FALSE]
    /\ hass_state = [e \in {} |-> "new"]
    /\ cmdPc = [e \in {} |-> "idle"]
    /\ pollPc = [e \in {} |-> "idle"]
    /\ cmdCalls = [e \in {} |-> 0]
    /\ polls = [e \in {} |-> <<>>]
    /\ cmdsSincePoll = [e \in {} |-> 0]
    /\ dev_info = [e \in {} |-> NoInfo]
    /\ callback_function = [e \in {} |-> 0]
    /\ attachLog = [e \in {} |-> <<>>]
    /\ updaters = [s \in Services |-> <<>>]
    /\ managers = [s \in Services |-> 0]
    /\ notif = [is_on |-> FALSE, just_updated |-> FALSE, uid |-> NoUid]
    /\ notifCmdPc = "idle"
    /\ notifPollPc = "idle"
    /\ last = NoStep
    /\ setupPc = "start"
    /\ switches = <<>>
    /\ registered = <<>>
    /\ inventory = NoInventory
    /\ setupResult = ""
    /\ configFile \in FileSamples
    /\ uidLog = <<>>

NextSetup ==
    \/ SetupStart
    \/ \E o \in Outcomes, inv \in SeqsUpTo(SwitchDevices, MaxSwitches) :
          GetSwitchesReturn(o, inv)
    \/ \E o \in Outcomes, inv \in SeqsUpTo(CameraDevices, MaxCameras) :
          GetCamerasReturn(o, inv)
    \/ \E rnd \in UrandomSamples : SetupFinish(rnd)
    \/ Restart

SpecSetup == InitSetup /\ [][NextSetup]_vars

(***************************************************************************)
(* The entities' life after setup: one WyzeSwitch (on either service) and  *)
(* the notification toggle, as a finished setup leaves them.               *)
(***************************************************************************)
InitEntities(E, Records) ==
    /\ ents = E
    /\ service \in [E -> Services]
    /\ device \in [E -> Records]
    /\ just_updated = [e \in E |-> FALSE]
    /\ hass_state = [e \in E |-> "new"]
    /\ cmdPc = [e \in E |-> "idle"]
    /\ pollPc = [e \in E |-> "idle"]
    /\ cmdCalls = [e \in E |-> 0]
    /\ polls = [e \in E |-> <<>>]
    /\ cmdsSincePoll = [e \in E |-> 0]
    /\ dev_info = [e \in E |-> NoInfo]
    /\ callback_function = [e \in E |-> 0]
    /\ attachLog = [e \in E |-> <<>>]
    /\ updaters = [s \in Services |-> <<>>]
    /\ managers = [s \in Services |-> 0]
    /\ notif = [is_on |-> FALSE, just_updated |-> FALSE, uid |-> OldUid]
    /\ notifCmdPc = "idle"
    /\ notifPollPc = "idle"
    /\ last = NoStep
    /\ setupPc = "done"
    /\ switches = <<>>
    /\ registered = <<>>
    /\ inventory = NoInventory
    /\ setupResult = "ok"
    /\ configFile = SavedFile
    /\ uidLog = <<>>

PlainRecords ==
    [mac : {"2CAA8E01"}, nickname : {"Porch"}, product_model : {"WLPP1"},
     on : BOOLEAN, available : BOOLEAN, device_params : {NoParams}]

Init == InitEntities({1}, PlainRecords)

\* One switch entity with any telemetry, and the platform reading its attributes.
InitAttrs == InitEntities({1}, TelemetryRecords)

NextAttrs == \E e \in ents : ReadAttributes(e)

SpecAttrs == InitAttrs /\ [][NextAttrs]_vars

SwitchNext ==
    \/ \E e \in ents : AsyncTurnOn(e)
    \/ \E e \in ents, o \in Outcomes : TurnOnReturn(e, o)
    \/ \E e \in ents : AsyncTurnOff(e)
    \/ \E e \in ents, o \in Outcomes : TurnOffReturn(e, o)
    \/ \E e \in ents : AsyncUpdate(e)
    \/ \E e \in ents, o \in Outcomes :
          \E r \in RemoteRecords(device[e]) : UpdateReturn(e, o, r)
    \/ \E e \in ents : SchedulerPush(e)
    \/ \E e \in ents : AsyncAddedToHass(e)
    \/ \E e \in ents : AsyncWillRemoveFromHass(e)

NotifNext ==
    \/ NotifTurnOn
    \/ \E o \in Outcomes : NotifTurnOnReturn(o)
    \/ NotifTurnOff
    \/ \E o \in Outcomes : NotifTurnOffReturn(o)
    \/ NotifUpdate
    \/ \E o \in Outcomes, b \in BOOLEAN : NotifUpdateReturn(o, b)

\* One switch entity on either service.
Next == SwitchNext

Spec == Init /\ [][Next]_vars

\* The notification toggle alone.
SpecNotif == Init /\ [][NotifNext]_vars

\* The switch entity and the notification toggle side by side.
NextAll == SwitchNext \/ NotifNext

SpecAll == Init /\ [][NextAll]_vars

\* Two switch entities, on one service or on two, attached, pushed to and
\* detached by the platform.
InitPair == InitEntities({1, 2}, PlainRecords)

NextLifecycle ==
    \/ \E e \in ents : AsyncAddedToHass(e)
    \/ \E e \in ents : AsyncWillRemoveFromHass(e)
    \/ \E e \in ents : SchedulerPush(e)

SpecLifecycle == InitPair /\ [][NextLifecycle]_vars

\* Two switch entities, on one service or on two: the user commands the first
\* while the platform polls the second, and the scheduler pushes to both.
NextPair ==
    \/ \E e \in ents : AsyncAddedToHass(e)
    \/ AsyncTurnOn(1)
    \/ \E o \in Outcomes : TurnOnReturn(1, o)
    \/ AsyncTurnOff(1)
    \/ \E o \in Outcomes : TurnOffReturn(1, o)
    \/ AsyncUpdate(2)
    \/ \E o \in Outcomes : \E r \in RemoteRecords(device[2]) : UpdateReturn(2, o, r)
    \/ \E e \in ents : SchedulerPush(e)

SpecPair == InitPair /\ [][NextPair]_vars


(***************************************************************************)
(* Properties of the switch entity's command, poll and push paths.         *)
(***************************************************************************)
\* The step in which e's command `k` comes back from the adapter.
CmdReturned(e, k) == cmdPc[e] = k /\ cmdPc'[e] = "idle"

\* The step in which async_update is entered on e.
PollEntered(e) ==
    /\ pollPc[e] = "idle"
    /\ last' # last
    /\ last'.ent = e
    /\ last'.op \in {"call_update", "update"}

\* The step in which e's service.update comes back.
PollReturned(e) == pollPc[e] = "update" /\ pollPc'[e] = "idle"

\* The step in which a push callback is delivered to e.
PushDelivered(e) == last' # last /\ last'.op = "push" /\ last'.ent = e

\* C1: when async_turn_on (async_turn_off) returns successfully, the adapter's
\* turn_on (turn_off) was invoked exactly once for that command, and in that
\* one step is_on becomes true (false) with the rest of the record as it was
\* (no refresh ran, none was started) and the "just updated" flag is set.
C1_OptimisticCommand ==
    [][\A e \in ents : \A k \in {"turn_on", "turn_off"} :
         (CmdReturned(e, k) /\ last'.result = "ok") =>
            /\ cmdCalls'[e] = 1
            /\ device'[e] = [device[e] EXCEPT !.on = (k = "turn_on")]
            /\ is_on(e)' = (k = "turn_on")
            /\ just_updated'[e]
            /\ pollPc' = pollPc]_vars

\* C1 witness: a turn_on has just returned successfully; the entity is on and
\* flagged, after one adapter call.
C1_Witness ==
    /\ last.op = "turn_on"
    /\ last.result = "ok"
    /\ is_on(last.ent)
    /\ just_updated[last.ent]
    /\ cmdCalls[last.ent] = 1

\* C2: a poll entered with the flag set is skipped: no adapter refresh is
\* called, the record stays, the flag is cleared.  The poll after a skipped one,
\* with no command in between, calls the adapter's refresh, and when that
\* returns a record the record replaces the owned one.  The number of commands
\* before the skipped poll plays no part.
C2_PollSkippedOnce ==
    [][\A e \in ents :
         /\ (PollEntered(e) /\ just_updated[e]) =>
               /\ last'.op = "update" /\ last'.result = "skipped"
               /\ pollPc'[e] = "idle"
               /\ device' = device
               /\ ~just_updated'[e]
         /\ (PollEntered(e) /\ polls[e] # <<>> /\ polls[e][1].did = "skipped"
                /\ cmdsSincePoll[e] = 0) =>
               /\ last'.op = "call_update"
               /\ pollPc'[e] = "update"
         /\ (PollReturned(e) /\ last'.result = "ok") => device'[e] = last'.rec]_vars

\* C2 witness: two commands, then a skipped poll, then a poll that refreshed
\* and whose record is now the entity's.
C2_Witness ==
    \E e \in ents :
        /\ Len(polls[e]) = 2
        /\ polls[e][2].did = "skipped" /\ polls[e][2].cmds >= 2
        /\ polls[e][1].did = "called" /\ polls[e][1].cmds = 0
        /\ last = Step("update", e, "ok", device[e], FALSE)

\* C3: after a push callback the owned record is the pushed record, whatever
\* the "just updated" flag, a state write was requested, and is_on and
\* available are the pushed record's.
C3_PushAlwaysReplaces ==
    last.op = "push" =>
        /\ device[last.ent] = last.rec
        /\ last.scheduled
        /\ is_on(last.ent) = last.rec.on
        /\ available(last.ent) = last.rec.available

\* C3 witness: a push delivered while the flag is set, overriding the
\* optimistic value.
C3_Witness ==
    /\ last.op = "push"
    /\ just_updated[last.ent]
    /\ polls[last.ent] = <<>>
    /\ ~is_on(last.ent)
    /\ cmdsSincePoll[last.ent] > 0

\* C4: when the adapter's turn_on / turn_off call fails, the owned record and
\* the "just updated" flag keep their values, and the caller does not see
\* success: a transient error reaches it as raised, an authentication error
\* through the wrapper.
C4_FailedCommandKeepsState ==
    [][\A e \in ents : \A k \in {"turn_on", "turn_off"} :
         (CmdReturned(e, k) /\ last'.result # "ok") =>
            /\ device'[e] = device[e]
            /\ just_updated'[e] = just_updated[e]
            /\ last'.result \in {"transient", "reauth"}]_vars

\* C4 witness: a turn_off failed with a transient error on an entity that is
\* on and not flagged.
C4_Witness ==
    /\ last.op = "turn_off"
    /\ last.result = "transient"
    /\ is_on(last.ent)
    /\ ~just_updated[last.ent]

\* C5: no authentication error leaves a public entry point (async_turn_on,
\* async_turn_off, async_update) of the switch entity or of the notification
\* toggle unhandled: each is routed to the re-authentication handler.
C5_AuthErrorsRouted == last.result # "auth"

\* C6: once an attached, subscribed entity is removed, no push callback is
\* delivered to it.
C6_NoPushAfterRemove ==
    [][\A e \in ents : hass_state[e] = "removed" => ~PushDelivered(e)]_vars

\* C6 witness: the entity was removed, its service's scheduler still runs,
\* and the entity's own poll still refreshes it.
C6_Witness ==
    \E e \in ents :
        /\ hass_state[e] = "removed"
        /\ managers[service[e]] > 0
        /\ last.op = "update" /\ last.ent = e /\ last.result = "ok"

\* C7: a get_uid run that finds no file creates it, generates a token of 32
\* hexadecimal characters, stores it under section OPTIONS, option SYSTEM_ID and
\* returns it; a later run returns the token of the run before it, generates
\* nothing and writes nothing; the notification toggle's unique_id is the
\* token get_uid returned.
C7_UidPersisted ==
    /\ (uidLog # <<>> /\ ~uidLog[1].found) =>
          /\ uidLog[1].generated /\ uidLog[1].wrote
          /\ IsHexToken(uidLog[1].uid)
          /\ configFile.exists
          /\ has_option(ConfigRead(configFile), "OPTIONS", "SYSTEM_ID")
          /\ ConfigGet(ConfigRead(configFile), "OPTIONS", "SYSTEM_ID") = uidLog[1].uid
    /\ (Len(uidLog) = 2) =>
          /\ uidLog[1].uid = uidLog[2].uid
          /\ ~uidLog[1].generated /\ ~uidLog[1].wrote
    /\ (setupPc = "done") => notif_unique_id = uidLog[1].uid

\* C7 witness: a first run without a file generated the token, the run after a
\* restart read it back, and the toggle carries it.
C7_Witness ==
    /\ Len(uidLog) = 2
    /\ ~uidLog[2].found /\ uidLog[2].generated
    /\ uidLog[1].found /\ ~uidLog[1].generated
    /\ setupPc = "done"
    /\ notif_unique_id = uidLog[2].uid

\* C8: two switch entities have the same unique_id exactly when their records
\* have the same hardware identifier, whatever else the records hold; the
\* unique_id is the identifier followed by "-switch".
C8_UniqueIdFromMac ==
    \A e1 \in ents, e2 \in ents :
        /\ (device[e1].mac = device[e2].mac) <=> (unique_id(e1) = unique_id(e2))
        /\ Len(unique_id(e1)) = Len(device[e1].mac) + 7

\* C8 witness: two entities built from different records of one device, and a
\* third of another device.
C8_Witness ==
    \E e1 \in ents, e2 \in ents, e3 \in ents :
        /\ e1 # e2
        /\ device[e1].mac = device[e2].mac
        /\ device[e1] # device[e2]
        /\ device[e3].mac # device[e1].mac
        /\ unique_id(e1) = unique_id(e2)
        /\ unique_id(e3) # unique_id(e1)

\* C9: the attributes hold "Battery", "IP", "RSSI", "SSID" exactly when the
\* record's device_params holds the key "electricity", "ip", "rssi", "ssid",
\* whatever its value, and always hold state, available, device model and mac.
C9_AttributesFollowKeys ==
    \A e \in ents :
        dev_info[e].computed =>
            LET has == DOMAIN dev_info[e].attrs
                keys == DOMAIN dev_info[e].of.device_params
            IN  /\ ("Battery" \in has) <=> ("electricity" \in keys)
                /\ ("IP" \in has) <=> ("ip" \in keys)
                /\ ("RSSI" \in has) <=> ("rssi" \in keys)
                /\ ("SSID" \in has) <=> ("ssid" \in keys)
                /\ {"state", "available", "device model", "mac"} \subseteq has

\* C10: computing the attributes never raises, whatever device_params holds.
C10_AttributesNeverRaise ==
    \A e \in ents : dev_info[e].computed => dev_info[e].error = ""

(***************************************************************************)
(* Properties of the notification toggle.                                  *)
(***************************************************************************)
\* The step in which the toggle's command `k` comes back from the client.
NotifCmdReturned(k) == notifCmdPc = k /\ notifCmdPc' = "idle"

\* The step in which the toggle's async_update is entered.
NotifPollEntered ==
    /\ notifPollPc = "idle"
    /\ last' # last
    /\ last'.ent = "notifications"
    /\ last'.op \in {"call_notifications_are_on", "update"}

\* C11: the toggle's async_turn_on / async_turn_off call the account-level
\* enable / disable first and leave the object alone until the call succeeds,
\* then set is_on and raise the flag; async_update with the flag set clears it
\* and does not query, otherwise it queries the account and adopts the answer
\* as is_on; the toggle always reports itself available.
C11_NotificationToggle ==
    [][/\ \A k \in {"turn_on", "turn_off"} :
            /\ (notifCmdPc = "idle" /\ notifCmdPc' = k) =>
                   /\ notif' = notif
                   /\ last'.op = (IF k = "turn_on" THEN "call_enable" ELSE "call_disable")
            /\ (NotifCmdReturned(k) /\ last'.result = "ok") =>
                   /\ notif_is_on' = (k = "turn_on")
                   /\ notif'.just_updated
            /\ (NotifCmdReturned(k) /\ last'.result # "ok") => notif' = notif
       /\ (NotifPollEntered /\ notif.just_updated) =>
            /\ ~notif'.just_updated
            /\ notif_is_on' = notif_is_on
            /\ notifPollPc' = "idle"
            /\ last'.op = "update" /\ last'.result = "skipped"
       /\ (NotifPollEntered /\ ~notif.just_updated) =>
            /\ notifPollPc' = "update"
            /\ last'.op = "call_notifications_are_on"
            /\ notif' = notif
       /\ (notifPollPc = "update" /\ notifPollPc' = "idle" /\ last'.result = "ok") =>
            /\ notif_is_on' = last'.reply
            /\ notif'.just_updated = notif.just_updated
       /\ notif_available /\ notif_available']_vars

\* C11 witness: a refresh right after a command was skipped: the flag is
\* consumed and the toggle still shows the commanded "on".
C11_Witness ==
    /\ last = NotifStep("update", "skipped", FALSE, FALSE)
    /\ notif_is_on
    /\ ~notif.just_updated
    /\ notifCmdPc = "idle"
    /\ notif_available

(***************************************************************************)
(* Properties of the entities setup builds.                                *)
(***************************************************************************)
\* C15: a finished setup made one async_add_entities call, whose list holds,
\* in order, one WyzeSwitch on the switch service per device get_switches
\* returned, one WyzeSwitch on the camera service per device get_cameras
\* returned, and one notification toggle that carries the identifier stored in
\* the file; a setup that is under way or that failed at an inventory call has
\* made no such call and left no entity.
C15_SetupRegistersOneBatch ==
    LET n == Len(inventory.switches)
        m == Len(inventory.cameras)
    IN  /\ setupPc = "done" =>
              /\ Len(registered) = 1
              /\ Len(registered[1]) = n + m + 1
              /\ \A i \in 1..n :
                    /\ registered[1][i].kind = "switch"
                    /\ registered[1][i].service = "switch_service"
                    /\ registered[1][i].device = inventory.switches[i]
              /\ \A i \in 1..m :
                    /\ registered[1][n + i].kind = "switch"
                    /\ registered[1][n + i].service = "camera_service"
                    /\ registered[1][n + i].device = inventory.cameras[i]
              /\ registered[1][n + m + 1].kind = "notifications"
              /\ registered[1][n + m + 1].uid =
                    ConfigGet(ConfigRead(configFile), "OPTIONS", "SYSTEM_ID")
              /\ ents = 1..(n + m)
        /\ setupPc # "done" =>
              /\ registered = <<>>
              /\ ents = {}

\* C15 witness: setup finished with two switches and a camera and handed the
\* platform one list of four entities.
C15_Witness ==
    /\ setupPc = "done"
    /\ Len(inventory.switches) = 2
    /\ Len(inventory.cameras) = 1
    /\ Len(registered) = 1
    /\ Len(registered[1]) = 4
    /\ inventory.switches[1].mac # inventory.switches[2].mac

PollStepWhilePending(e) ==
    /\ pollPc[e] = "update"
    /\ last' # last
    /\ last'.ent = e
    /\ last'.op \in {"call_update", "update"}

\* C14: a pending refresh ends with the step that brings its outcome back,
\* without a second call; if the outcome is a transient error the caller gets
\* that error and the record and the flag are as before; and the poll entered
\* right after it, no command having succeeded meanwhile, calls the adapter.
C14_TransientPollFailure ==
    [][\A e \in ents :
         /\ PollStepWhilePending(e) =>
               /\ last'.op = "update"
               /\ pollPc'[e] = "idle"
         /\ (PollReturned(e) /\ last'.result = "transient") =>
               /\ device'[e] = device[e]
               /\ just_updated'[e] = just_updated[e]
               /\ last'.rec = NoDevice
         /\ (PollEntered(e) /\ last = Step("update", e, "transient", NoDevice, FALSE)
                /\ cmdsSincePoll[e] = 0) =>
               /\ last'.op = "call_update"
               /\ pollPc'[e] = "update"]_vars

\* C14 witness: a refresh of an entity that is on and not flagged has just
\* failed with a transient error and no command ran meanwhile.
C14_Witness ==
    \E e \in ents :
        /\ last = Step("update", e, "transient", NoDevice, FALSE)
        /\ ~just_updated[e]
        /\ cmdsSincePoll[e] = 0
        /\ pollPc[e] = "idle"
        /\ is_on(e)

\* C16: when a refresh that was already pending while a command succeeded
\* comes back right after that command, is_on is still the commanded value.
C16_StalePollKeepsCommandedValue ==
    [][\A e \in ents :
         (/\ PollReturned(e)
          /\ last.ent = e
          /\ last.op \in {"turn_on", "turn_off"}
          /\ last.result = "ok") =>
            is_on(e)' = (last.op = "turn_on")]_vars

\* C17: a push leaves the flag as it was; the flag goes up only in the step
\* that brings a command's success back and goes down only in a poll that is
\* skipped; and a poll entered right after a push that followed a successful
\* command is skipped and leaves the pushed record in place.
C17_PushKeepsFlag ==
    [][\A e \in ents :
         /\ PushDelivered(e) => just_updated'[e] = just_updated[e]
         /\ (~just_updated[e] /\ just_updated'[e]) =>
               /\ \E k \in {"turn_on", "turn_off"} : CmdReturned(e, k)
               /\ last'.result = "ok"
         /\ (just_updated[e] /\ ~just_updated'[e]) =>
               /\ PollEntered(e)
               /\ last'.result = "skipped"
         /\ (/\ PollEntered(e)
             /\ last.op = "push" /\ last.ent = e
             /\ cmdsSincePoll[e] > 0) =>
               /\ last'.op = "update" /\ last'.result = "skipped"
               /\ pollPc'[e] = "idle"
               /\ device'[e] = last.rec]_vars

\* C17 witness: after an earlier poll, a command succeeded and a push then
\* delivered a record that is on; the flag is still up and no poll is pending.
C17_Witness ==
    \E e \in ents :
        /\ last.op = "push" /\ last.ent = e
        /\ last.rec.on
        /\ just_updated[e]
        /\ cmdsSincePoll[e] > 0
        /\ polls[e] # <<>>
        /\ pollPc[e] = "idle" /\ cmdPc[e] = "idle"

(***************************************************************************)
(* Properties of attach and detach with several entities.                  *)
(***************************************************************************)
\* The entities of service s that have been detached.
Detached(s) == {e \in ents : service[e] = s /\ hass_state[e] = "removed"}

C19_DetachOnlyOwnSubscription ==
    [][\A e \in ents :
         (hass_state[e] = "added" /\ hass_state'[e] = "removed") =>
            \A f \in ents \ {e} :
               hass_state[f] = "added" =>
                  Cardinality(Subscriptions(service[f], f)') =
                     Cardinality(Subscriptions(service[f], f))]_vars

\* C18: a step of one entity's command, poll or push leaves the flag, the
\* record and is_on of every other entity as they were; and a poll of an
\* entity that comes right after another entity's successful command, with no
\* command of its own since its last poll, calls the adapter.
C18_PerEntityState ==
    [][\A f \in ents :
         /\ (last'.op # "none" /\ last'.ent # f) =>
               /\ just_updated'[f] = just_updated[f]
               /\ device'[f] = device[f]
               /\ is_on(f)' = is_on(f)
         /\ (/\ PollEntered(f)
             /\ last.op \in {"turn_on", "turn_off"}
             /\ last.ent # f
             /\ last.result = "ok"
             /\ cmdsSincePoll[f] = 0) =>
               /\ last'.op = "call_update"
               /\ pollPc'[f] = "update"]_vars

\* C18 witness: on one shared service, the first entity was just switched on
\* and carries the flag, and the poll of the second, which is off and not
\* flagged, has called the adapter.
C18_Witness ==
    /\ service[1] = service[2]
    /\ just_updated[1] /\ is_on(1)
    /\ ~just_updated[2] /\ ~is_on(2)
    /\ last = Step("call_update", 2, "", NoDevice, FALSE)
    /\ pollPc[2] = "update"
    /\ cmdsSincePoll[1] > 0

=============================================================================
